---- MODULE Spec2Model ----
(***************************************************************************)
(* Model of robosat_pink/tools/train.py: the training driver `main`, the   *)
(* `train` and `validate` passes and the per-epoch checkpoint emission.    *)
(*                                                                         *)
(* Tensors are abstracted to what the driver observes of them: the shape   *)
(* facts tested by the three assertions, a small loss value, and a version *)
(* counter for the model parameters and for the optimizer state (both are  *)
(* advanced by optimizer.step()).                                          *)
(***************************************************************************)
EXTENDS Integers, Sequences, FiniteSets, TLC

\* ---------------------------------------------------------------- bounds
MaxEpochs == 3
MaxSamples == 2

\* ------------------------------------------------------------- constants
\* width of the "{:05d}" fields of the checkpoint file name
PadWidth == 5

\* modules found by pkgutil.iter_modules in robosat_pink.models / .losses
models == {"albunet", "unet"}
losses == {"lovasz", "focal"}

\* names a configuration file may carry
ConfigModelNames == {"albunet", "deeplab"}
ConfigLossNames == {"lovasz", "dice"}

\* values --epochs is given on the command line (None: not given)
ArgsEpochs == {{}, {0}, {1}}

\* values of model.batch_size in the configuration file
BatchSizes == {1, 2}

\* values of loss.item() for one batch
LossValues == {0, 1}

\* values of model.lr in the configuration file, in units of 1e-4
ConfigLrs == {2}

\* batches each DataLoader worker is asked for ahead of the consumer
PrefetchFactor == 2

\* class ids of a mask pixel; per-pixel class scores of a prediction
Classes == {0, 1}
Scores == {<<1, 0>>, <<0, 1>>}

VARIABLES
    pc,             \* position of the control thread
    args,           \* parsed command line: checkpoint, resume, epochs
    config,         \* load_config(args.config): epochs, name, loss
    dataset,        \* samples under training/ and validation/, batch_size
    files,          \* checkpoint files in args.out: path -> content
    num_epochs,     \* main: num_epochs
    resume,         \* main: resume
    epoch,          \* main: loop variable of `for epoch in range(...)`
    chkpt,          \* main: the record returned by torch.load, {} if none
    net_created,    \* main: the model class has been instantiated
    net_training,   \* net.training (set by net.train() / net.eval())
    net_params,     \* version of net.state_dict()
    opt_state,      \* version of optimizer.state_dict()
    grads,          \* gradient buffers: "none", "zero" or "computed"
    grad_enabled,   \* torch.is_grad_enabled()
    loader_pos,     \* batches already yielded by the loader in this pass
    batch,          \* the batch in hand: shape facts of images and masks
    outputs,        \* net(images): shape facts of the prediction
    loss,           \* loss.item() of the batch in hand
    num_samples,    \* train/validate: num_samples
    running_loss,   \* train/validate: running_loss
    metrics,        \* samples added to the Metrics() of this pass
    steps,          \* operations performed so far on the batch in hand
    history,        \* phases begun (train, validate) or completed (checkpoint)
    written,        \* paths opened for writing by torch.save in this run
    error,          \* message of sys.exit / of the failed assertion
    lr,             \* main: lr, the learning rate given to Adam
    ready,          \* batches loaded by worker processes, not yet yielded
    consumed,       \* indices of the batches the pass has taken, in order
    samples,        \* the (mask, prediction) pairs of a pass
    confusion,      \* the confusion matrix held by a Metrics object
    added           \* positions in `samples` already given to metrics.add

vars == <<pc, args, config, dataset, files, num_epochs, resume, epoch, chkpt,
          net_created, net_training, net_params, opt_state, grads,
          grad_enabled, loader_pos, batch, outputs, loss, num_samples,
          running_loss, metrics, steps, history, written, error, lr, ready,
          consumed, samples, confusion, added>>

\* ------------------------------------------------------------ data types
\* an optional value (None or a value) is the empty set or a singleton
None == {}
Some(v) == {v}
Get(opt) == CHOOSE v \in opt : TRUE

\* Python truthiness of an optional integer: None and 0 are falsy
Truthy(opt) == opt # None /\ opt # Some(0)

NoError == [text |-> "", names |-> {}]
NoBatch == [sync |-> TRUE]
NoOutputs == [spatial |-> TRUE, classes |-> TRUE]

\* the file left by an interrupted write
Partial == [epoch |-> 0, state_dict |-> 0, optimizer |-> 0, complete |-> FALSE]

\* Metrics(): an all-zero confusion matrix, indexed (ground truth, predicted)
MetricsNew == [c \in Classes \X Classes |-> 0]

\* the most likely class of one pixel's scores
ArgMax(scores) ==
    CHOOSE c \in Classes : \A d \in Classes : scores[c + 1] >= scores[d + 1]

\* Metrics.add(mask, prediction): one count per pixel of the sample
MetricsAdd(cm, sample) ==
    [c \in Classes \X Classes |->
        cm[c] + Cardinality({i \in 1..Len(sample) :
                    sample[i].mask = c[1] /\ ArgMax(sample[i].scores) = c[2]})]

\* IoU of class k as the fraction <<TP, TP + FP + FN>>
IoU(cm, k) ==
    LET tp == cm[<<k, k>>]
        fp == cm[<<1 - k, k>>]
        fn == cm[<<k, 1 - k>>]
    IN  <<tp, tp + fp + fn>>

\* Metrics.get_miou(): mean IoU over the classes with a non-empty union,
\* as a fraction; <<0, 0>> when no class has one
GetMiou(cm) ==
    LET a == IoU(cm, 0)
        b == IoU(cm, 1)
    IN  IF a[2] = 0 THEN (IF b[2] = 0 THEN <<0, 0>> ELSE b)
        ELSE IF b[2] = 0 THEN a
        ELSE <<a[1] * b[2] + b[1] * a[2], 2 * a[2] * b[2]>>

\* Metrics.get_fg_iou(): IoU of class 1
GetFgIou(cm) == IoU(cm, 1)

\* Metrics.get_mcc(): <<numerator, squared denominator>>, 0 when the
\* denominator is 0
GetMcc(cm) ==
    LET tp == cm[<<1, 1>>]
        tn == cm[<<0, 0>>]
        fp == cm[<<0, 1>>]
        fn == cm[<<1, 0>>]
        den2 == (tp + fp) * (tp + fn) * (tn + fp) * (tn + fn)
    IN  IF den2 = 0 THEN <<0, 1>> ELSE <<tp * tn - fp * fn, den2>>

RECURSIVE Digits(_)
Digits(n) == IF n < 10 THEN <<n>> ELSE Digits(n \div 10) \o <<n % 10>>

\* "{:05d}".format(n) for n >= 0
Format05d(n) ==
    LET d == Digits(n)
    IN  IF Len(d) >= PadWidth THEN d
        ELSE [i \in 1..(PadWidth - Len(d)) |-> 0] \o d

\* os.path.join(args.out, "checkpoint-{:05d}-of-{:05d}.pth".format(e, n))
CheckpointPath(e, n) == <<Format05d(e), Format05d(n)>>

\* variant of NumBatches: a DataLoader that keeps the last, short batch
NumBatches_KeepLast(n) ==
    (n + dataset.batch_size - 1) \div dataset.batch_size

\* number of batches a DataLoader with drop_last=True yields per pass
NumBatches(n) == n \div dataset.batch_size

\* the files an earlier run of total `n` left after `k` epochs
PriorFiles(k, n) ==
    [p \in {CheckpointPath(i, n) : i \in 1..k} |->
        LET i == CHOOSE j \in 1..k : CheckpointPath(j, n) = p
        IN  [epoch |-> i, state_dict |-> i, optimizer |-> i, complete |-> TRUE]]

\* ------------------------------------------------------------------ Init
\* everything main has not touched yet
InitState ==
    /\ num_epochs = 0
    /\ resume = 0
    /\ epoch = 0
    /\ chkpt = None
    /\ net_created = FALSE
    /\ net_training = TRUE
    /\ net_params = 0
    /\ opt_state = 0
    /\ grads = "none"
    /\ grad_enabled = TRUE
    /\ loader_pos = 0
    /\ batch = NoBatch
    /\ outputs = NoOutputs
    /\ loss = 0
    /\ num_samples = 0
    /\ running_loss = 0
    /\ metrics = 0
    /\ steps = <<>>
    /\ history = <<>>
    /\ written = <<>>
    /\ error = NoError
    /\ lr = 0
    /\ ready = {}
    /\ consumed = <<>>
    /\ samples = <<>>
    /\ confusion = MetricsNew
    /\ added = {}

\* The state on entry to main(args): the command line, the configuration
\* file, the dataset directory and the output directory are the inputs.
Init ==
    /\ \E n \in 1..MaxEpochs : \E k \in 0..n : files = PriorFiles(k, n)
    /\ args \in [checkpoint : {None} \cup {Some(p) : p \in DOMAIN files},
                 resume : BOOLEAN,
                 epochs : ArgsEpochs,
                 lr : {None},
                 workers : {0}]
    /\ config \in [epochs : 0..MaxEpochs,
                   name : ConfigModelNames,
                   loss : ConfigLossNames,
                   lr : ConfigLrs]
    /\ dataset \in [training : 0..MaxSamples,
                    validation : 0..MaxSamples,
                    batch_size : BatchSizes]
    /\ pc = "main"
    /\ InitState

inputs == <<args, config, dataset>>
netVars == <<net_created, net_training, net_params, opt_state, grads, grad_enabled>>
passVars == <<loader_pos, batch, outputs, loss, num_samples, running_loss, metrics, steps>>
mainVars == <<num_epochs, resume, epoch, chkpt>>
loaderVars == <<ready, consumed>>
metricVars == <<samples, confusion, added>>

\* sys.exit(message): the process ends with a non-zero status
SysExit(text, names) ==
    /\ pc' = "exited"
    /\ error' = [text |-> text, names |-> names]

\* a failed assert statement: AssertionError propagates out of main
AssertFail(text) ==
    /\ pc' = "failed"
    /\ error' = [text |-> text, names |-> {}]

\* ------------------------------------------------------------------ main
\* lines 50-53: configuration and command-line overrides
LoadConfig ==
    /\ pc = "main"
    /\ lr' = IF Truthy(args.lr) THEN Get(args.lr) ELSE config.lr
    /\ num_epochs' = IF Truthy(args.epochs) THEN Get(args.epochs) ELSE config.epochs
    /\ pc' = "resolve_model"
    /\ UNCHANGED <<inputs, files, resume, epoch, chkpt, netVars, passVars,
                   history, written, error>>
    /\ UNCHANGED <<metricVars, loaderVars>>

\* variant of ResolveModel: the model instantiated before its name is checked
ResolveModel_LateCheck ==
    /\ pc = "resolve_model"
    /\ IF config.name \notin models
       THEN /\ SysExit("Unknown model, thoses available are", models)
            /\ net_created' = TRUE
            /\ UNCHANGED <<net_training, net_params, opt_state>>
       ELSE /\ net_created' = TRUE
            /\ net_training' = TRUE
            /\ net_params' = 0
            /\ opt_state' = 0
            /\ pc' = "load_checkpoint"
            /\ UNCHANGED error
    /\ UNCHANGED <<inputs, files, mainVars, grads, grad_enabled, passVars,
                   history, written>>
    /\ UNCHANGED <<metricVars, lr, loaderVars>>

\* lines 73-83: model lookup, instantiation, optimizer construction
ResolveModel ==
    /\ pc = "resolve_model"
    /\ IF config.name \notin models
       THEN /\ SysExit("Unknown model, thoses available are", models)
            /\ UNCHANGED <<net_created, net_training, net_params, opt_state>>
       ELSE /\ net_created' = TRUE
            /\ net_training' = TRUE
            /\ net_params' = 0
            /\ opt_state' = 0
            /\ pc' = "load_checkpoint"
            /\ UNCHANGED error
    /\ UNCHANGED <<inputs, files, mainVars, grads, grad_enabled, passVars,
                   history, written>>
    /\ UNCHANGED <<metricVars, lr, loaderVars>>

\* variant of LoadCheckpoint: every checkpoint is resumed from
LoadCheckpoint_AlwaysResume ==
    /\ pc = "load_checkpoint"
    /\ IF args.checkpoint # None
       THEN LET c == files[Get(args.checkpoint)]
            IN  /\ chkpt' = Some(c)
                /\ net_params' = c.state_dict
                /\ opt_state' = c.optimizer
                /\ resume' = c.epoch
       ELSE UNCHANGED <<chkpt, net_params, opt_state, resume>>
    /\ pc' = "resolve_loss"
    /\ UNCHANGED <<inputs, files, num_epochs, epoch, net_created, net_training,
                   grads, grad_enabled, passVars, history, written, error>>
    /\ UNCHANGED <<metricVars, lr, loaderVars>>

\* lines 85-98: optional checkpoint, optional resume
LoadCheckpoint ==
    /\ pc = "load_checkpoint"
    /\ IF args.checkpoint # None
       THEN LET c == files[Get(args.checkpoint)]
            IN  /\ chkpt' = Some(c)
                /\ net_params' = c.state_dict
                /\ IF args.resume
                   THEN /\ opt_state' = c.optimizer
                        /\ resume' = c.epoch
                   ELSE UNCHANGED <<opt_state, resume>>
       ELSE UNCHANGED <<chkpt, net_params, opt_state, resume>>
    /\ pc' = "resolve_loss"
    /\ UNCHANGED <<inputs, files, num_epochs, epoch, net_created, net_training,
                   grads, grad_enabled, passVars, history, written, error>>
    /\ UNCHANGED <<metricVars, lr, loaderVars>>

\* lines 100-105: loss lookup and instantiation
ResolveLoss ==
    /\ pc = "resolve_loss"
    /\ IF config.loss \notin losses
       THEN SysExit("Unknown loss, thoses available are", losses)
       ELSE /\ pc' = "loaders"
            /\ UNCHANGED error
    /\ UNCHANGED <<inputs, files, mainVars, netVars, passVars, history, written>>
    /\ UNCHANGED <<metricVars, lr, loaderVars>>

\* line 107: the two DataLoaders are built; nothing is read yet
GetDatasetLoaders ==
    /\ pc = "loaders"
    /\ pc' = "guard"
    /\ UNCHANGED <<inputs, files, mainVars, netVars, passVars, history,
                   written, error>>
    /\ UNCHANGED <<metricVars, lr, loaderVars>>

\* variant of ResumeGuard: the epoch loop always starts at 0
ResumeGuard_FromZero ==
    /\ pc = "guard"
    /\ IF resume >= num_epochs
       THEN /\ SysExit("Error: Epoch set already reached by the checkpoint provided", {})
            /\ UNCHANGED epoch
       ELSE /\ pc' = "epoch"
            /\ epoch' = 0
            /\ UNCHANGED error
    /\ UNCHANGED <<inputs, files, num_epochs, resume, chkpt, netVars, passVars,
                   history, written>>
    /\ UNCHANGED <<metricVars, lr, loaderVars>>

\* variant of ResumeGuard: the guard written with > instead of >=
ResumeGuard_Strict ==
    /\ pc = "guard"
    /\ IF resume > num_epochs
       THEN /\ SysExit("Error: Epoch set already reached by the checkpoint provided", {})
            /\ UNCHANGED epoch
       ELSE /\ pc' = "epoch"
            /\ epoch' = resume
            /\ UNCHANGED error
    /\ UNCHANGED <<inputs, files, num_epochs, resume, chkpt, netVars, passVars,
                   history, written>>
    /\ UNCHANGED <<metricVars, lr, loaderVars>>

\* lines 109-110: the checkpoint already reached the configured epoch
ResumeGuard ==
    /\ pc = "guard"
    /\ IF resume >= num_epochs
       THEN /\ SysExit("Error: Epoch set already reached by the checkpoint provided", {})
            /\ UNCHANGED epoch
       ELSE /\ pc' = "epoch"
            /\ epoch' = resume
            /\ UNCHANGED error
    /\ UNCHANGED <<inputs, files, num_epochs, resume, chkpt, netVars, passVars,
                   history, written>>
    /\ UNCHANGED <<metricVars, lr, loaderVars>>

\* variant of EpochLoop: an epoch loop that stops once a validation loss of zero is seen
EpochLoop_EarlyStop ==
    /\ pc = "epoch"
    /\ pc' = IF epoch < num_epochs /\ ~(epoch > resume /\ running_loss = 0) THEN "train" ELSE "done"
    /\ UNCHANGED <<inputs, files, mainVars, netVars, passVars, history,
                   written, error>>
    /\ UNCHANGED <<metricVars, lr, loaderVars>>

\* line 132: `for epoch in range(resume, num_epochs)`, one iteration test
EpochLoop ==
    /\ pc = "epoch"
    /\ pc' = IF epoch < num_epochs THEN "train" ELSE "done"
    /\ UNCHANGED <<inputs, files, mainVars, netVars, passVars, history,
                   written, error>>
    /\ UNCHANGED <<metricVars, lr, loaderVars>>

\* variant of TrainBegin: a train pass that does not call net.train()
TrainBegin_NoTrainMode ==
    /\ pc = "train"
    /\ num_samples' = 0
    /\ running_loss' = 0
    /\ metrics' = 0
    /\ net_training' = net_training
    /\ loader_pos' = 0
    /\ ready' = {}
    /\ consumed' = <<>>
    /\ steps' = <<>>
    /\ history' = Append(history, <<"train", epoch>>)
    /\ pc' = "t_iter"
    /\ UNCHANGED <<inputs, files, mainVars, net_created, net_params, opt_state,
                   grads, grad_enabled, batch, outputs, loss, written, error>>
    /\ UNCHANGED <<metricVars, lr>>

\* ----------------------------------------------------------------- train
\* lines 161-166: fresh counters, fresh Metrics(), net.train()
TrainBegin ==
    /\ pc = "train"
    /\ num_samples' = 0
    /\ running_loss' = 0
    /\ metrics' = 0
    /\ net_training' = TRUE
    /\ loader_pos' = 0
    /\ ready' = {}
    /\ consumed' = <<>>
    /\ steps' = <<>>
    /\ history' = Append(history, <<"train", epoch>>)
    /\ pc' = "t_iter"
    /\ UNCHANGED <<inputs, files, mainVars, net_created, net_params, opt_state,
                   grads, grad_enabled, batch, outputs, loss, written, error>>
    /\ UNCHANGED <<metricVars, lr>>

\* lines 168-170: the loader yields the next batch, or the loop ends
TrainFetch ==
    /\ pc = "t_iter"
    /\ IF loader_pos < NumBatches(dataset.training)
       THEN /\ args.workers = 0 \/ loader_pos + 1 \in ready
            /\ \E b \in [sync : BOOLEAN] : batch' = b
            /\ loader_pos' = loader_pos + 1
            /\ ready' = ready \ {loader_pos + 1}
            /\ consumed' = Append(consumed, loader_pos + 1)
            /\ steps' = <<>>
            /\ pc' = "t_check"
       ELSE /\ pc' = "t_finish"
            /\ UNCHANGED <<batch, loader_pos, steps, loaderVars>>
    /\ UNCHANGED <<inputs, files, mainVars, netVars, outputs, loss, num_samples,
                   running_loss, metrics, history, written, error>>
    /\ UNCHANGED <<metricVars, lr>>

\* lines 172-174: image/mask resolution assertion, sample count
\* variant of TrainCheckBatch: num_samples counts batches, not samples
TrainCheckBatch_CountBatches ==
    /\ pc = "t_check"
    /\ IF ~batch.sync
       THEN /\ AssertFail("resolutions for images and masks are in sync")
            /\ UNCHANGED <<num_samples, steps>>
       ELSE /\ num_samples' = num_samples + 1
            /\ steps' = Append(steps, "shape_check")
            /\ pc' = "t_zero_grad"
            /\ UNCHANGED error
    /\ UNCHANGED <<inputs, files, mainVars, netVars, loader_pos, batch, outputs,
                   loss, running_loss, metrics, history, written>>
    /\ UNCHANGED <<metricVars, lr, loaderVars>>

TrainCheckBatch ==
    /\ pc = "t_check"
    /\ IF ~batch.sync
       THEN /\ AssertFail("resolutions for images and masks are in sync")
            /\ UNCHANGED <<num_samples, steps>>
       ELSE /\ num_samples' = num_samples + dataset.batch_size
            /\ steps' = Append(steps, "shape_check")
            /\ pc' = "t_zero_grad"
            /\ UNCHANGED error
    /\ UNCHANGED <<inputs, files, mainVars, netVars, loader_pos, batch, outputs,
                   loss, running_loss, metrics, history, written>>
    /\ UNCHANGED <<metricVars, lr, loaderVars>>

\* line 176: optimizer.zero_grad()
TrainZeroGrad ==
    /\ pc = "t_zero_grad"
    /\ grads' = "zero"
    /\ steps' = Append(steps, "zero_grad")
    /\ pc' = "t_forward"
    /\ UNCHANGED <<inputs, files, mainVars, net_created, net_training,
                   net_params, opt_state, grad_enabled, loader_pos, batch,
                   outputs, loss, num_samples, running_loss, metrics, history,
                   written, error>>
    /\ UNCHANGED <<metricVars, lr, loaderVars>>

\* line 177: outputs = net(images)
TrainForward ==
    /\ pc = "t_forward"
    /\ \E o \in [spatial : BOOLEAN, classes : BOOLEAN] : outputs' = o
    /\ steps' = Append(steps, "forward")
    /\ pc' = "t_assert_out"
    /\ UNCHANGED <<inputs, files, mainVars, netVars, loader_pos, batch, loss,
                   num_samples, running_loss, metrics, history, written, error>>
    /\ UNCHANGED <<metricVars, lr, loaderVars>>

\* variant of TrainAssertOutputs: the train pass without the class-count assertion
TrainAssertOutputs_NoClassCheck ==
    /\ pc = "t_assert_out"
    /\ IF ~outputs.spatial
       THEN /\ AssertFail("resolutions for predictions and masks are in sync")
            /\ UNCHANGED steps
       ELSE IF FALSE
       THEN /\ AssertFail("classes for predictions and dataset are in sync")
            /\ UNCHANGED steps
       ELSE /\ steps' = Append(steps, "output_check")
            /\ pc' = "t_loss"
            /\ UNCHANGED error
    /\ UNCHANGED <<inputs, files, mainVars, netVars, loader_pos, batch, outputs,
                   loss, num_samples, running_loss, metrics, history, written>>
    /\ UNCHANGED <<metricVars, lr, loaderVars>>

\* lines 179-180: prediction resolution and class-count assertions
TrainAssertOutputs ==
    /\ pc = "t_assert_out"
    /\ IF ~outputs.spatial
       THEN /\ AssertFail("resolutions for predictions and masks are in sync")
            /\ UNCHANGED steps
       ELSE IF ~outputs.classes
       THEN /\ AssertFail("classes for predictions and dataset are in sync")
            /\ UNCHANGED steps
       ELSE /\ steps' = Append(steps, "output_check")
            /\ pc' = "t_loss"
            /\ UNCHANGED error
    /\ UNCHANGED <<inputs, files, mainVars, netVars, loader_pos, batch, outputs,
                   loss, num_samples, running_loss, metrics, history, written>>
    /\ UNCHANGED <<metricVars, lr, loaderVars>>

\* line 182: loss = criterion(outputs, masks)
TrainLoss ==
    /\ pc = "t_loss"
    /\ \E l \in LossValues : loss' = l
    /\ steps' = Append(steps, "loss")
    /\ pc' = "t_backward"
    /\ UNCHANGED <<inputs, files, mainVars, netVars, loader_pos, batch, outputs,
                   num_samples, running_loss, metrics, history, written, error>>
    /\ UNCHANGED <<metricVars, lr, loaderVars>>

\* line 183: loss.backward()
TrainBackward ==
    /\ pc = "t_backward"
    /\ grads' = "computed"
    /\ steps' = Append(steps, "backward")
    /\ pc' = "t_step"
    /\ UNCHANGED <<inputs, files, mainVars, net_created, net_training,
                   net_params, opt_state, grad_enabled, loader_pos, batch,
                   outputs, loss, num_samples, running_loss, metrics, history,
                   written, error>>
    /\ UNCHANGED <<metricVars, lr, loaderVars>>

\* line 185: optimizer.step()
TrainStep ==
    /\ pc = "t_step"
    /\ net_params' = net_params + 1
    /\ opt_state' = opt_state + 1
    /\ steps' = Append(steps, "step")
    /\ pc' = "t_accumulate"
    /\ UNCHANGED <<inputs, files, mainVars, net_created, net_training, grads,
                   grad_enabled, loader_pos, batch, outputs, loss, num_samples,
                   running_loss, metrics, history, written, error>>
    /\ UNCHANGED <<metricVars, lr, loaderVars>>

\* line 187: running_loss += loss.item()
TrainAccumulate ==
    /\ pc = "t_accumulate"
    /\ running_loss' = running_loss + loss
    /\ steps' = Append(steps, "running_loss")
    /\ pc' = "t_metrics"
    /\ UNCHANGED <<inputs, files, mainVars, netVars, loader_pos, batch, outputs,
                   loss, num_samples, metrics, history, written, error>>
    /\ UNCHANGED <<metricVars, lr, loaderVars>>

\* lines 189-191: metrics.add(mask, prediction) for every sample of the batch
TrainMetrics ==
    /\ pc = "t_metrics"
    /\ metrics' = metrics + dataset.batch_size
    /\ steps' = Append(steps, "metrics")
    /\ batch' = NoBatch
    /\ outputs' = NoOutputs
    /\ loss' = 0
    /\ pc' = "t_iter"
    /\ UNCHANGED <<inputs, files, mainVars, netVars, loader_pos, num_samples,
                   running_loss, history, written, error>>
    /\ UNCHANGED <<metricVars, lr, loaderVars>>

\* variant of TrainFinish: the driver going from the train pass straight to the checkpoint
TrainFinish_SkipValidate ==
    /\ pc = "t_finish"
    /\ IF ~(num_samples > 0)
       THEN AssertFail("dataset contains training images and labels")
       ELSE /\ pc' = "checkpoint"
            /\ UNCHANGED error
    /\ UNCHANGED <<inputs, files, mainVars, netVars, passVars, history, written>>
    /\ UNCHANGED <<metricVars, lr, loaderVars>>

\* variant of TrainFinish: the train pass without its non-empty assertion
TrainFinish_NoAssert ==
    /\ pc = "t_finish"
    /\ IF FALSE
       THEN AssertFail("dataset contains training images and labels")
       ELSE /\ pc' = "validate"
            /\ UNCHANGED error
    /\ UNCHANGED <<inputs, files, mainVars, netVars, passVars, history, written>>
    /\ UNCHANGED <<metricVars, lr, loaderVars>>

\* lines 193-200: non-empty assertion, then the statistics are returned
TrainFinish ==
    /\ pc = "t_finish"
    /\ IF ~(num_samples > 0)
       THEN AssertFail("dataset contains training images and labels")
       ELSE /\ pc' = "validate"
            /\ UNCHANGED error
    /\ UNCHANGED <<inputs, files, mainVars, netVars, passVars, history, written>>
    /\ UNCHANGED <<metricVars, lr, loaderVars>>

\* variant of ValidateBegin: one Metrics object shared by the two passes
ValidateBegin_SharedMetrics ==
    /\ pc = "validate"
    /\ num_samples' = 0
    /\ running_loss' = 0
    /\ metrics' = metrics
    /\ net_training' = FALSE
    /\ grad_enabled' = FALSE
    /\ loader_pos' = 0
    /\ ready' = {}
    /\ consumed' = <<>>
    /\ steps' = <<>>
    /\ history' = Append(history, <<"validate", epoch>>)
    /\ pc' = "v_iter"
    /\ UNCHANGED <<inputs, files, mainVars, net_created, net_params, opt_state,
                   grads, batch, outputs, loss, written, error>>
    /\ UNCHANGED <<metricVars, lr>>

\* variant of ValidateBegin: a validate pass that does not call net.eval()
ValidateBegin_NoEval ==
    /\ pc = "validate"
    /\ num_samples' = 0
    /\ running_loss' = 0
    /\ metrics' = 0
    /\ net_training' = net_training
    /\ grad_enabled' = FALSE
    /\ loader_pos' = 0
    /\ ready' = {}
    /\ consumed' = <<>>
    /\ steps' = <<>>
    /\ history' = Append(history, <<"validate", epoch>>)
    /\ pc' = "v_iter"
    /\ UNCHANGED <<inputs, files, mainVars, net_created, net_params, opt_state,
                   grads, batch, outputs, loss, written, error>>
    /\ UNCHANGED <<metricVars, lr>>

\* -------------------------------------------------------------- validate
\* lines 205-211: fresh counters, fresh Metrics(), net.eval(), no_grad()
ValidateBegin ==
    /\ pc = "validate"
    /\ num_samples' = 0
    /\ running_loss' = 0
    /\ metrics' = 0
    /\ net_training' = FALSE
    /\ grad_enabled' = FALSE
    /\ loader_pos' = 0
    /\ ready' = {}
    /\ consumed' = <<>>
    /\ steps' = <<>>
    /\ history' = Append(history, <<"validate", epoch>>)
    /\ pc' = "v_iter"
    /\ UNCHANGED <<inputs, files, mainVars, net_created, net_params, opt_state,
                   grads, batch, outputs, loss, written, error>>
    /\ UNCHANGED <<metricVars, lr>>

\* lines 212-214: next batch, or the loop and the no_grad block end
ValidateFetch ==
    /\ pc = "v_iter"
    /\ IF loader_pos < NumBatches(dataset.validation)
       THEN /\ args.workers = 0 \/ loader_pos + 1 \in ready
            /\ \E b \in [sync : BOOLEAN] : batch' = b
            /\ loader_pos' = loader_pos + 1
            /\ ready' = ready \ {loader_pos + 1}
            /\ consumed' = Append(consumed, loader_pos + 1)
            /\ steps' = <<>>
            /\ pc' = "v_check"
            /\ UNCHANGED grad_enabled
       ELSE /\ grad_enabled' = TRUE
            /\ pc' = "v_finish"
            /\ UNCHANGED <<batch, loader_pos, steps, loaderVars>>
    /\ UNCHANGED <<inputs, files, mainVars, net_created, net_training,
                   net_params, opt_state, grads, outputs, loss, num_samples,
                   running_loss, metrics, history, written, error>>
    /\ UNCHANGED <<metricVars, lr>>

\* lines 216-218: image/mask resolution assertion, sample count
ValidateCheckBatch ==
    /\ pc = "v_check"
    /\ IF ~batch.sync
       THEN /\ AssertFail("resolutions for images and masks are in sync")
            /\ grad_enabled' = TRUE
            /\ UNCHANGED <<num_samples, steps>>
       ELSE /\ num_samples' = num_samples + dataset.batch_size
            /\ steps' = Append(steps, "shape_check")
            /\ pc' = "v_forward"
            /\ UNCHANGED <<error, grad_enabled>>
    /\ UNCHANGED <<inputs, files, mainVars, net_created, net_training,
                   net_params, opt_state, grads, loader_pos, batch, outputs,
                   loss, running_loss, metrics, history, written>>
    /\ UNCHANGED <<metricVars, lr, loaderVars>>

\* line 219: outputs = net(images)
ValidateForward ==
    /\ pc = "v_forward"
    /\ \E o \in [spatial : BOOLEAN, classes : BOOLEAN] : outputs' = o
    /\ steps' = Append(steps, "forward")
    /\ pc' = "v_assert_out"
    /\ UNCHANGED <<inputs, files, mainVars, netVars, loader_pos, batch, loss,
                   num_samples, running_loss, metrics, history, written, error>>
    /\ UNCHANGED <<metricVars, lr, loaderVars>>

\* lines 221-222: prediction resolution and class-count assertions
ValidateAssertOutputs ==
    /\ pc = "v_assert_out"
    /\ IF ~outputs.spatial
       THEN /\ AssertFail("resolutions for predictions and masks are in sync")
            /\ grad_enabled' = TRUE
            /\ UNCHANGED steps
       ELSE IF ~outputs.classes
       THEN /\ AssertFail("classes for predictions and dataset are in sync")
            /\ grad_enabled' = TRUE
            /\ UNCHANGED steps
       ELSE /\ steps' = Append(steps, "output_check")
            /\ pc' = "v_loss"
            /\ UNCHANGED <<error, grad_enabled>>
    /\ UNCHANGED <<inputs, files, mainVars, net_created, net_training,
                   net_params, opt_state, grads, loader_pos, batch, outputs,
                   loss, num_samples, running_loss, metrics, history, written>>
    /\ UNCHANGED <<metricVars, lr, loaderVars>>

\* line 224: loss = criterion(outputs, masks)
ValidateLoss ==
    /\ pc = "v_loss"
    /\ \E l \in LossValues : loss' = l
    /\ steps' = Append(steps, "loss")
    /\ pc' = "v_accumulate"
    /\ UNCHANGED <<inputs, files, mainVars, netVars, loader_pos, batch, outputs,
                   num_samples, running_loss, metrics, history, written, error>>
    /\ UNCHANGED <<metricVars, lr, loaderVars>>

\* line 225: running_loss += loss.item()
ValidateAccumulate ==
    /\ pc = "v_accumulate"
    /\ running_loss' = running_loss + loss
    /\ steps' = Append(steps, "running_loss")
    /\ pc' = "v_metrics"
    /\ UNCHANGED <<inputs, files, mainVars, netVars, loader_pos, batch, outputs,
                   loss, num_samples, metrics, history, written, error>>
    /\ UNCHANGED <<metricVars, lr, loaderVars>>

\* lines 227-228: metrics.add(mask, output) for every sample of the batch
ValidateMetrics ==
    /\ pc = "v_metrics"
    /\ metrics' = metrics + dataset.batch_size
    /\ steps' = Append(steps, "metrics")
    /\ batch' = NoBatch
    /\ outputs' = NoOutputs
    /\ loss' = 0
    /\ pc' = "v_iter"
    /\ UNCHANGED <<inputs, files, mainVars, netVars, loader_pos, num_samples,
                   running_loss, history, written, error>>
    /\ UNCHANGED <<metricVars, lr, loaderVars>>

\* lines 230-237: non-empty assertion, then the statistics are returned
ValidateFinish ==
    /\ pc = "v_finish"
    /\ IF ~(num_samples > 0)
       THEN AssertFail("dataset contains validation images and labels")
       ELSE /\ pc' = "checkpoint"
            /\ UNCHANGED error
    /\ UNCHANGED <<inputs, files, mainVars, netVars, passVars, history, written>>
    /\ UNCHANGED <<metricVars, lr, loaderVars>>

\* ------------------------------------------------------------ checkpoint
\* lines 155-157, first half: torch.save opens checkpoint_path for writing,
\* which creates the file or truncates the one already there
SaveOpen ==
    /\ pc = "checkpoint"
    /\ LET checkpoint_path == CheckpointPath(epoch + 1, num_epochs)
       IN  /\ files' = (checkpoint_path :> Partial) @@ files
           /\ written' = Append(written, checkpoint_path)
    /\ pc' = "saving"
    /\ UNCHANGED <<inputs, mainVars, netVars, passVars, history, error>>
    /\ UNCHANGED <<metricVars, lr, loaderVars>>

\* variant of SaveWrite: a checkpoint that stores the loop index instead of epoch + 1
SaveWrite_EpochIndex ==
    /\ pc = "saving"
    /\ LET checkpoint_path == CheckpointPath(epoch + 1, num_epochs)
           states == [epoch |-> epoch, state_dict |-> net_params,
                      optimizer |-> opt_state, complete |-> TRUE]
       IN  files' = (checkpoint_path :> states) @@ files
    /\ history' = Append(history, <<"checkpoint", epoch>>)
    /\ epoch' = epoch + 1
    /\ pc' = "epoch"
    /\ UNCHANGED <<inputs, num_epochs, resume, chkpt, netVars, passVars,
                   written, error>>
    /\ UNCHANGED <<metricVars, lr, loaderVars>>

\* lines 155-157, second half: the serialized states reach the file, the
\* file is closed and the loop moves to the next epoch
SaveWrite ==
    /\ pc = "saving"
    /\ LET checkpoint_path == CheckpointPath(epoch + 1, num_epochs)
           states == [epoch |-> epoch + 1, state_dict |-> net_params,
                      optimizer |-> opt_state, complete |-> TRUE]
       IN  files' = (checkpoint_path :> states) @@ files
    /\ history' = Append(history, <<"checkpoint", epoch>>)
    /\ epoch' = epoch + 1
    /\ pc' = "epoch"
    /\ UNCHANGED <<inputs, num_epochs, resume, chkpt, netVars, passVars,
                   written, error>>
    /\ UNCHANGED <<metricVars, lr, loaderVars>>

\* the process is terminated while torch.save is writing
Kill ==
    /\ pc = "saving"
    /\ pc' = "killed"
    /\ UNCHANGED <<inputs, files, mainVars, netVars, passVars, history,
                   written, error>>
    /\ UNCHANGED <<metricVars, lr, loaderVars>>

\* ------------------------------------------------------------------ Next
Next ==
    \/ LoadConfig
    \/ ResolveModel
    \/ LoadCheckpoint
    \/ ResolveLoss
    \/ GetDatasetLoaders
    \/ ResumeGuard
    \/ EpochLoop
    \/ TrainBegin
    \/ TrainFetch
    \/ TrainCheckBatch
    \/ TrainZeroGrad
    \/ TrainForward
    \/ TrainAssertOutputs
    \/ TrainLoss
    \/ TrainBackward
    \/ TrainStep
    \/ TrainAccumulate
    \/ TrainMetrics
    \/ TrainFinish
    \/ ValidateBegin
    \/ ValidateFetch
    \/ ValidateCheckBatch
    \/ ValidateForward
    \/ ValidateAssertOutputs
    \/ ValidateLoss
    \/ ValidateAccumulate
    \/ ValidateMetrics
    \/ ValidateFinish
    \/ SaveOpen
    \/ SaveWrite
    \/ Kill

Spec == Init /\ [][Next]_vars

\* The runs used for termination: the epoch count comes from the
\* configuration file and the output directory holds the first k checkpoints
\* of an earlier run of MaxEpochs epochs, any of which may be resumed from.
InitFair ==
    /\ Init
    /\ args.epochs = None
    /\ \E k \in 0..MaxEpochs : files = PriorFiles(k, MaxEpochs)

\* the control thread is never suspended for ever: every call returns
FairSpec == InitFair /\ [][Next]_vars /\ WF_vars(Next)

TypeOK ==
    /\ pc \in {"main", "resolve_model", "load_checkpoint", "resolve_loss",
               "loaders", "guard", "epoch", "train", "t_iter", "t_check",
               "t_zero_grad", "t_forward", "t_assert_out", "t_loss",
               "t_backward", "t_step", "t_accumulate", "t_metrics", "t_finish",
               "validate", "v_iter", "v_check", "v_forward", "v_assert_out",
               "v_loss", "v_accumulate", "v_metrics", "v_finish", "checkpoint",
               "saving", "done", "exited", "failed", "killed"}
    /\ num_epochs \in 0..MaxEpochs
    /\ resume \in 0..MaxEpochs
    /\ epoch \in 0..MaxEpochs
    /\ grads \in {"none", "zero", "computed"}
    /\ num_samples \in 0..MaxSamples
    /\ metrics \in 0..MaxSamples

\* ------------------------------------------------- operators for the claims
IsPrefix(s, t) == Len(s) <= Len(t) /\ \A i \in 1..Len(s) : s[i] = t[i]

Last(s) == s[Len(s)]

Elems(s) == {s[i] : i \in 1..Len(s)}

Phases == <<"train", "validate", "checkpoint">>

\* the phases of a complete run over epochs r .. n-1
Canon(r, n) ==
    [i \in 1..(IF n > r THEN 3 * (n - r) ELSE 0) |->
        <<Phases[((i - 1) % 3) + 1], r + ((i - 1) \div 3)>>]

CountPhase(p) == Cardinality({i \in 1..Len(history) : history[i][1] = p})

\* the number a field of decimal digits denotes
RECURSIVE DigitsValue(_)
DigitsValue(d) ==
    IF d = <<>> THEN 0
    ELSE 10 * DigitsValue(SubSeq(d, 1, Len(d) - 1)) + d[Len(d)]

Terminal == {"done", "exited", "failed", "killed"}

TrainBodyPcs == {"t_check", "t_zero_grad", "t_forward", "t_assert_out",
                 "t_loss", "t_backward", "t_step", "t_accumulate", "t_metrics"}
TrainPassPcs == TrainBodyPcs \cup {"t_iter", "t_finish"}
ValidateBodyPcs == {"v_check", "v_forward", "v_assert_out", "v_loss",
                    "v_accumulate", "v_metrics"}
ValidatePassPcs == ValidateBodyPcs \cup {"v_iter", "v_finish"}

ResumeRequested == args.checkpoint # None /\ args.resume

\* parameter and optimizer versions the first epoch starts from
BaseParams == IF chkpt # None THEN Get(chkpt).state_dict ELSE 0
BaseOptimizer == IF chkpt # None /\ args.resume THEN Get(chkpt).optimizer ELSE 0

ImagesMsg == "resolutions for images and masks are in sync"
PredictionsMsg == "resolutions for predictions and masks are in sync"
ClassesMsg == "classes for predictions and dataset are in sync"
EmptyTrainMsg == "dataset contains training images and labels"
EmptyValidateMsg == "dataset contains validation images and labels"
GuardMsg == "Error: Epoch set already reached by the checkpoint provided"
ShapeMsgs == {ImagesMsg, PredictionsMsg, ClassesMsg}

\* ---------------------------------------------------------------- claims

\* C1: when a checkpoint is supplied with --resume and the epoch stored in
\* it is at least num_epochs, main ends in sys.exit with the "already
\* reached" message; no train pass, no validate pass and no checkpoint write
\* has happened, and Done is never reached.
C1_ResumeGuard ==
    (ResumeRequested /\ chkpt # None /\ Get(chkpt).epoch >= num_epochs) =>
        /\ pc \in {"resolve_loss", "loaders", "guard", "exited"}
        /\ history = <<>>
        /\ written = <<>>
        /\ (pc = "exited" /\ config.loss \in losses => error.text = GuardMsg)
        /\ (pc = "exited" => error # NoError)

C1_Witness ==
    /\ pc = "exited"
    /\ error.text = GuardMsg
    /\ ResumeRequested
    /\ chkpt # None
    /\ Get(chkpt).epoch = num_epochs
    /\ num_epochs > 0

\* C2: the phases of a run are train e, validate e, checkpoint e for
\* e = resume, resume+1, ... in that order: the phases so far are always a
\* prefix of that sequence, the control position agrees with the last phase
\* begun, and Done is reached only with the sequence complete.
C2_PhaseOrder ==
    /\ IsPrefix(history, Canon(resume, num_epochs))
    /\ (pc \in TrainPassPcs \cup {"validate"} => Last(history) = <<"train", epoch>>)
    /\ (pc \in ValidatePassPcs \cup {"checkpoint", "saving"} =>
            Last(history) = <<"validate", epoch>>)
    /\ (pc = "train" /\ history # <<>> => Last(history) = <<"checkpoint", epoch - 1>>)
    /\ (pc = "done" => history = Canon(resume, num_epochs) /\
                       Last(history) = <<"checkpoint", num_epochs - 1>>)

C2_Witness ==
    /\ pc = "done"
    /\ Len(history) = 9

\* what holds of the driver's position in every state (C3)
NoEarlyStopState ==
    /\ (pc = "done" =>
            /\ epoch = num_epochs
            /\ \A p \in Elems(Phases) : CountPhase(p) = num_epochs - resume
            /\ num_epochs - resume >= 1)
    /\ (pc \notin Terminal => ENABLED Next)
    /\ (pc \in {"exited", "failed"} => error # NoError)

\* C3: a run that reaches Done has executed exactly num_epochs - resume
\* epochs, at least one, whatever losses were observed; the driver stops
\* nowhere but in Done or in a fatal error (exit, failed assertion, kill),
\* and when every call returns it does reach one of these.
C3_NoEarlyStop == []NoEarlyStopState /\ <>(pc \in Terminal)

C3_Witness ==
    /\ pc = "done"
    /\ resume = 1
    /\ num_epochs = 3
    /\ running_loss = 0
    /\ CountPhase("train") = 2

\* C4: the i-th checkpoint of a run is written to the path whose two
\* 5-digit fields read resume+i and num_epochs, and stores epoch number
\* resume+i with the model and optimizer state of that moment; paths are
\* pairwise distinct, so no file of the run is written twice, and a
\* completed run wrote resume+1 .. num_epochs.
C4_CheckpointIdentity ==
    /\ \A i \in 1..Len(written) :
          /\ Len(written[i][1]) = PadWidth
          /\ Len(written[i][2]) = PadWidth
          /\ DigitsValue(written[i][1]) = resume + i
          /\ DigitsValue(written[i][2]) = num_epochs
          /\ written[i] \in DOMAIN files
          /\ (i < Len(written) \/ pc \notin {"saving", "killed"} =>
                /\ files[written[i]].complete
                /\ files[written[i]].epoch = resume + i)
    /\ \A i, j \in 1..Len(written) : i # j => written[i] # written[j]
    /\ (pc = "epoch" /\ written # <<>> =>
          /\ files[Last(written)].state_dict = net_params
          /\ files[Last(written)].optimizer = opt_state
          /\ files[Last(written)].epoch = epoch)
    /\ (pc = "done" => Len(written) = num_epochs - resume)

C4_Witness ==
    /\ pc = "done"
    /\ resume = 1
    /\ Len(written) = 2
    /\ files[written[2]].epoch = 3

\* C5: with a model name that is not a discovered module, main exits with
\* the message listing all models, the network is never instantiated, no
\* checkpoint is loaded and no epoch runs; with a known model and an unknown
\* loss name, main exits with the message listing all losses before any
\* epoch runs and before any checkpoint file is written.
C5_UnknownPlugin ==
    /\ (config.name \notin models =>
            /\ pc \in {"main", "resolve_model", "exited"}
            /\ ~net_created
            /\ chkpt = None
            /\ history = <<>>
            /\ written = <<>>
            /\ (pc = "exited" =>
                    error = [text |-> "Unknown model, thoses available are",
                             names |-> {"albunet", "unet"}]))
    /\ (config.name \in models /\ config.loss \notin losses =>
            /\ pc \in {"main", "resolve_model", "load_checkpoint",
                       "resolve_loss", "exited"}
            /\ history = <<>>
            /\ written = <<>>
            /\ (pc = "exited" =>
                    error = [text |-> "Unknown loss, thoses available are",
                             names |-> {"lovasz", "focal"}]))

C5_Witness ==
    /\ pc = "exited"
    /\ config.name = "deeplab"
    /\ args.checkpoint # None
    /\ error.names = models

\* what holds in every state of and after a validate pass (C6)
ValidationState ==
          /\ (pc \in ValidatePassPcs => ~net_training)
          /\ (pc \in ValidateBodyPcs \cup {"v_iter"} => ~grad_enabled)
          /\ (pc \in ValidatePassPcs =>
                  "backward" \notin Elems(steps) /\ "step" \notin Elems(steps))
          /\ (pc \in ValidatePassPcs \cup {"checkpoint"} =>
                  /\ net_params = BaseParams +
                        (epoch - resume + 1) * NumBatches(dataset.training)
                  /\ opt_state = BaseOptimizer +
                        (epoch - resume + 1) * NumBatches(dataset.training))
          /\ \A i \in 1..Len(written) :
                files[written[i]].complete =>
                  /\ files[written[i]].state_dict =
                        BaseParams + i * NumBatches(dataset.training)
                  /\ files[written[i]].optimizer =
                        BaseOptimizer + i * NumBatches(dataset.training)

\* what every step taken inside a validate pass leaves alone (C6)
ValidationStep ==
    pc \in ValidatePassPcs \cup {"validate"} =>
        /\ net_params' = net_params
        /\ opt_state' = opt_state
        /\ grads' = grads

\* C6: throughout a validate pass the model is in evaluation mode, gradient
\* computation is disabled while batches are processed, no backward and no
\* optimizer step is performed, and no step of the pass changes the
\* parameters, the optimizer state or the gradients; the checkpoint of the
\* i-th epoch of the run therefore holds the state after that epoch's last
\* training step, i.e. after i * NumBatches(training) steps from the base.
C6_ValidationFrame == []ValidationState /\ [][ValidationStep]_vars

C6_Witness ==
    /\ pc = "epoch"
    /\ Len(written) = 2
    /\ NumBatches(dataset.validation) = 2
    /\ NumBatches(dataset.training) = 2
    /\ files[written[2]].state_dict = BaseParams + 4

TrainCanon == <<"shape_check", "zero_grad", "forward", "output_check", "loss",
                "backward", "step", "running_loss", "metrics">>

\* batches of the current train pass whose optimizer step has been applied
StepsApplied ==
    IF pc \in {"t_iter", "t_finish", "t_accumulate", "t_metrics"}
    THEN loader_pos ELSE loader_pos - 1

\* C7: in every train pass, also one that follows a validate pass, the model
\* is in training mode from before the first batch; the operations on a
\* batch are always a prefix of: shape check, zero_grad, forward, output
\* check, loss, backward, step, running-loss, metrics; a fully processed
\* batch has gone through all of them; the optimizer has stepped exactly
\* once per processed batch; and every step is taken in training mode on
\* gradients just computed.
C7_TrainStepOrder ==
    /\ (pc \in TrainPassPcs => net_training /\ grad_enabled)
    /\ (pc \in TrainBodyPcs => IsPrefix(steps, TrainCanon) /\ steps # TrainCanon)
    /\ (pc = "t_check" => steps = <<>>)
    /\ (pc = "t_step" => steps = SubSeq(TrainCanon, 1, 6) /\ grads = "computed")
    /\ (pc = "t_accumulate" => Last(steps) = "step")
    /\ (pc \in {"t_iter", "t_finish"} /\ loader_pos > 0 => steps = TrainCanon)
    /\ (pc \in TrainPassPcs =>
            /\ opt_state = BaseOptimizer + StepsApplied +
                  (epoch - resume) * NumBatches(dataset.training)
            /\ net_params = BaseParams + StepsApplied +
                  (epoch - resume) * NumBatches(dataset.training))

C7_Witness ==
    /\ pc = "t_accumulate"
    /\ epoch > resume
    /\ loader_pos = 2
    /\ net_training

\* the outcome of the non-empty assertion that ends a pass (C8)
EmptyPassStep ==
          /\ (pc = "t_finish" /\ num_samples = 0 =>
                  pc' = "failed" /\ error'.text = EmptyTrainMsg)
          /\ (pc = "v_finish" /\ num_samples = 0 =>
                  pc' = "failed" /\ error'.text = EmptyValidateMsg)
          /\ (pc = "t_finish" /\ pc' = "validate" => num_samples > 0)
          /\ (pc = "v_finish" /\ pc' = "checkpoint" => num_samples > 0)

\* what a dataset that yields no batch excludes (C8)
EmptyPassState ==
          /\ (NumBatches(dataset.training) = 0 =>
                  /\ CountPhase("validate") = 0
                  /\ written = <<>>
                  /\ pc \notin {"done", "validate", "checkpoint", "saving"})
          /\ (NumBatches(dataset.validation) = 0 =>
                  /\ written = <<>>
                  /\ pc \notin {"done", "checkpoint", "saving"})
          /\ (pc = "failed" /\ error.text \in {EmptyTrainMsg, EmptyValidateMsg} =>
                  num_samples = 0 /\ Len(written) = epoch - resume)

\* C8: a pass that processed zero samples ends in a failed assertion and
\* never returns statistics (no division by a zero sample count); with no
\* training batch the validate pass never begins, and with no training or
\* no validation batch no checkpoint file is written and Done is not
\* reached.
C8_EmptyDatasetFatal == []EmptyPassState /\ [][EmptyPassStep]_vars

C8_Witness ==
    /\ pc = "failed"
    /\ error.text = EmptyTrainMsg
    /\ dataset.training = 1
    /\ dataset.batch_size = 2
    /\ history = <<<<"train", 0>>>>

\* the outcome of the three shape assertions (C9)
ShapeMismatchStep ==
          /\ (pc \in {"t_check", "v_check"} /\ ~batch.sync =>
                  pc' = "failed" /\ error'.text = ImagesMsg)
          /\ (pc \in {"t_assert_out", "v_assert_out"} /\ ~outputs.spatial =>
                  pc' = "failed" /\ error'.text = PredictionsMsg)
          /\ (pc \in {"t_assert_out", "v_assert_out"} /\ outputs.spatial
                /\ ~outputs.classes =>
                  pc' = "failed" /\ error'.text = ClassesMsg)

\* the state a shape assertion leaves the run in (C9)
ShapeMismatchState ==
    pc = "failed" /\ error.text \in ShapeMsgs =>
            /\ Elems(steps) \cap {"step", "running_loss", "metrics"} = {}
            /\ metrics = (loader_pos - 1) * dataset.batch_size
            /\ opt_state = BaseOptimizer
                  + (epoch - resume) * NumBatches(dataset.training)
                  + (IF Last(history)[1] = "train" THEN loader_pos - 1
                     ELSE NumBatches(dataset.training))
            /\ Last(history)[1] \in {"train", "validate"}
            /\ Last(history)[2] = epoch
            /\ Len(written) = epoch - resume
            /\ \A i \in 1..Len(written) : DigitsValue(written[i][1]) <= epoch
            /\ ~ENABLED Next

\* C9: a batch whose image and mask resolutions differ, or whose prediction
\* differs from the mask in resolution or from the configuration in class
\* count, ends the run in a failed assertion at that batch: no optimizer
\* step, running-loss or metrics update was made for it, nothing runs
\* afterwards (no later batch, no later pass), and no checkpoint is written
\* for the epoch.
C9_ShapeMismatchFatal == []ShapeMismatchState /\ [][ShapeMismatchStep]_vars

C9_Witness ==
    /\ pc = "failed"
    /\ error.text = ClassesMsg
    /\ Last(history) = <<"train", 1>>
    /\ loader_pos = 2
    /\ resume = 0

\* C10: when the process is terminated during a checkpoint save, every
\* file of the output directory is a complete checkpoint: those that
\* existed before the save are intact and nothing partial is left.
C10_AtomicSave ==
    pc = "killed" => \A p \in DOMAIN files : files[p].complete

\* the case C10 is about for an older file: the path being saved was left
\* complete by an earlier run, and the kill leaves it truncated
C10_PriorFileLost ==
    /\ pc = "killed"
    /\ Last(written) \in DOMAIN PriorFiles(num_epochs, num_epochs)
    /\ args.checkpoint = Some(Last(written))
    /\ ~files[Last(written)].complete

\* batches of the current pass whose samples have all been given to metrics.add
MetricsDone ==
    IF pc \in {"t_iter", "t_finish", "v_iter", "v_finish"}
    THEN loader_pos ELSE loader_pos - 1

\* the accumulator holds the samples of the current pass and nothing else (C11)
MetricsState ==
    /\ (pc \in TrainPassPcs \cup ValidatePassPcs =>
            metrics = MetricsDone * dataset.batch_size)
    /\ (pc = "validate" =>
            metrics = NumBatches(dataset.training) * dataset.batch_size)
    /\ (pc = "checkpoint" =>
            metrics = NumBatches(dataset.validation) * dataset.batch_size)

\* a pass begins with an empty accumulator and only adds to it (C11)
MetricsStep ==
    /\ (pc \in {"train", "validate"} => metrics' = 0)
    /\ (pc \in TrainPassPcs \cup ValidatePassPcs => metrics' >= metrics)
    /\ (pc \in {"t_metrics", "v_metrics"} =>
            metrics' = metrics + dataset.batch_size)

\* C11: every train and validate pass starts from a new, empty Metrics
\* accumulator; within the pass its count only grows, by one add per sample
\* of each processed batch; and at any point, including where the statistics
\* of the pass are returned, it counts the samples of the current pass only,
\* never those of the other phase or of an earlier epoch.
C11_MetricsIsolation == []MetricsState /\ [][MetricsStep]_vars

C11_Witness ==
    /\ pc = "v_finish"
    /\ epoch > resume
    /\ dataset.training = 2
    /\ dataset.validation = 1
    /\ dataset.batch_size = 1
    /\ metrics = 1

\* ------------------------------------------------------------------
\* the DataLoader with worker processes

\* values of --workers
WorkerCounts == {0, 1, 2}

\* a worker process hands over one finished batch; workers run ahead of the
\* loop by at most PrefetchFactor batches each and finish in any order
WorkerDeliver ==
    /\ pc \in TrainPassPcs \cup ValidatePassPcs
    /\ args.workers > 0
    /\ LET n == IF pc \in TrainPassPcs
                THEN NumBatches(dataset.training)
                ELSE NumBatches(dataset.validation)
           window == {i \in 1..n :
                        /\ i > loader_pos
                        /\ i <= loader_pos + PrefetchFactor * args.workers}
       IN  \E i \in window \ ready : ready' = ready \cup {i}
    /\ UNCHANGED <<pc, inputs, files, mainVars, netVars, passVars, metricVars,
                   lr, consumed, history, written, error>>

InitLoader ==
    /\ files = [p \in {} |-> 0]
    /\ args \in [checkpoint : {None}, resume : {FALSE}, epochs : {None},
                 lr : {None}, workers : WorkerCounts]
    /\ config \in [epochs : 1..2, name : ConfigModelNames,
                   loss : ConfigLossNames, lr : ConfigLrs]
    /\ dataset \in [training : 0..MaxSamples, validation : 0..MaxSamples,
                    batch_size : BatchSizes]
    /\ pc = "main"
    /\ InitState

NextLoader == Next \/ WorkerDeliver

SpecLoader == InitLoader /\ [][NextLoader]_vars

\* batches of the pass, in the order the loop received them: each index once
VisitedOnce ==
    /\ Len(consumed) = loader_pos
    /\ \A i \in DOMAIN consumed : consumed[i] = i
    /\ \A i \in ready : i > loader_pos

\* C12: in every train or validate pass, whatever the number of worker
\* processes, the loop receives each batch of the loader exactly once (none
\* skipped, none repeated), so that at the end of the pass the batches
\* visited are exactly the loader's batches and num_samples is the batch
\* size times the number of batches.
C12_EachBatchOnce ==
    /\ (pc \in TrainPassPcs \cup ValidatePassPcs => VisitedOnce)
    /\ (pc = "t_finish" =>
            /\ Elems(consumed) = 1..NumBatches(dataset.training)
            /\ num_samples = dataset.batch_size * Len(consumed))
    /\ (pc = "v_finish" =>
            /\ Elems(consumed) = 1..NumBatches(dataset.validation)
            /\ num_samples = dataset.batch_size * Len(consumed))

C12_Witness ==
    /\ pc = "v_finish"
    /\ args.workers = 2
    /\ consumed = <<1, 2>>
    /\ num_samples = 2
    /\ epoch = 1

\* C13: in every run started with --resume, when the epoch loop is first
\* entered a checkpoint has been loaded, the model weights and the optimizer
\* state are those stored in it, and the loop starts at its stored epoch.
C13_ResumeImpliesCheckpoint ==
    (args.resume /\ pc = "epoch" /\ history = <<>>) =>
        /\ chkpt # None
        /\ net_params = Get(chkpt).state_dict
        /\ opt_state = Get(chkpt).optimizer
        /\ epoch = Get(chkpt).epoch

\* ------------------------------------------------------------------
\* the metrics of one pass, sample by sample

\* pixels per sample
PixelsPerSample == 2

\* a pixel: its ground-truth class and the scores the net gives it
Pixels == [mask : Classes, scores : Scores]

\* the samples a pass can see, in loader order
SampleSeqs ==
    UNION {[1..n -> [1..PixelsPerSample -> Pixels]] : n \in 0..MaxSamples}

InitMetrics ==
    /\ samples \in SampleSeqs
    /\ files = [p \in {} |-> 0]
    /\ args = [checkpoint |-> None, resume |-> FALSE, epochs |-> None,
               lr |-> None, workers |-> 0]
    /\ config = [epochs |-> 1, name |-> "albunet", loss |-> "Lovasz",
                 lr |-> 2]
    /\ dataset = [training |-> Len(samples), validation |-> 0,
                  batch_size |-> 1]
    /\ pc = "metrics"
    /\ num_epochs = 0
    /\ resume = 0
    /\ epoch = 0
    /\ chkpt = None
    /\ net_created = FALSE
    /\ net_training = FALSE
    /\ net_params = 0
    /\ opt_state = 0
    /\ grads = "none"
    /\ grad_enabled = TRUE
    /\ loader_pos = 0
    /\ batch = NoBatch
    /\ outputs = NoOutputs
    /\ loss = 0
    /\ num_samples = 0
    /\ running_loss = 0
    /\ metrics = 0
    /\ steps = <<>>
    /\ history = <<>>
    /\ written = <<>>
    /\ error = NoError
    /\ lr = 0
    /\ ready = {}
    /\ consumed = <<>>
    /\ confusion = MetricsNew
    /\ added = {}

\* variant of AddSample: the accumulator is replaced at every add
AddSample_FreshMetrics ==
    /\ pc = "metrics"
    /\ \E i \in DOMAIN samples \ added :
        /\ confusion' = MetricsAdd(MetricsNew, samples[i])
        /\ added' = added \cup {i}
    /\ UNCHANGED <<pc, inputs, files, mainVars, netVars, passVars, history,
                   written, error, lr, loaderVars, samples>>

\* lines 189-191 and 227-228: metrics.add(mask, prediction) for one sample;
\* shuffling and batching decide which sample comes next
AddSample ==
    /\ pc = "metrics"
    /\ \E i \in DOMAIN samples \ added :
        /\ confusion' = MetricsAdd(confusion, samples[i])
        /\ added' = added \cup {i}
    /\ UNCHANGED <<pc, inputs, files, mainVars, netVars, passVars, history,
                   written, error, lr, loaderVars, samples>>

\* lines 195-200 and 232-237: the statistics are read once the loop is over
ReportMetrics ==
    /\ pc = "metrics"
    /\ added = DOMAIN samples
    /\ pc' = "reported"
    /\ UNCHANGED <<inputs, files, mainVars, netVars, passVars, history,
                   written, error, lr, loaderVars, metricVars>>

NextMetrics == AddSample \/ ReportMetrics

SpecMetrics == InitMetrics /\ [][NextMetrics]_vars

\* all the pixels of a sequence of samples as one sample
RECURSIVE Combined(_)
Combined(ss) == IF ss = <<>> THEN <<>> ELSE Head(ss) \o Combined(Tail(ss))

\* the statistics a pass reports
Statistics(cm) == <<GetMiou(cm), GetFgIou(cm), GetMcc(cm)>>

\* C14: for any bounded sequence of (mask, prediction) samples, the mIoU,
\* foreground IoU and MCC read at the end of a pass that added the samples
\* one by one, in any order, equal those of a fresh accumulator given all
\* the samples at once.
C14_OrderIndependence ==
    pc = "reported" =>
        Statistics(confusion) =
            Statistics(MetricsAdd(MetricsNew, Combined(samples)))

C14_Witness ==
    /\ pc = "reported"
    /\ Len(samples) = 2
    /\ samples[1] # samples[2]
    /\ confusion[<<0, 1>>] > 0
    /\ confusion[<<1, 1>>] > 0
    /\ confusion[<<1, 0>>] > 0

\* the file named by --checkpoint
CheckpointFile == files[Get(args.checkpoint)]

\* the state main has when the resume guard is reached and when the epoch
\* loop is first entered (C15)
StartState ==
    /\ (pc = "guard" =>
            resume = IF ResumeRequested THEN CheckpointFile.epoch ELSE 0)
    /\ (pc = "epoch" /\ history = <<>> =>
            /\ epoch = IF ResumeRequested THEN CheckpointFile.epoch ELSE 0
            /\ (args.checkpoint = None =>
                    chkpt = None /\ net_params = 0 /\ opt_state = 0)
            /\ (args.checkpoint # None =>
                    /\ chkpt = Some(CheckpointFile)
                    /\ net_params = CheckpointFile.state_dict)
            /\ (args.checkpoint # None /\ ~args.resume =>
                    opt_state = 0 /\ epoch = 0)
            /\ (ResumeRequested => opt_state = CheckpointFile.optimizer))

\* the checkpoint is read once, before any epoch (C15)
LoadStep ==
    chkpt' # chkpt =>
        pc = "load_checkpoint" /\ chkpt = None /\ history = <<>>

\* C15: the epoch loop starts at the epoch stored in the checkpoint exactly
\* when --checkpoint and --resume are both given, and at 0 otherwise; with
\* --checkpoint and no --resume the weights come from the checkpoint while
\* the optimizer keeps its fresh state and the stored epoch is ignored; the
\* checkpoint is loaded at most once, before the first epoch.
C15_StartEpoch == []StartState /\ [][LoadStep]_vars

C15_Witness ==
    /\ pc = "epoch"
    /\ history = <<>>
    /\ args.checkpoint # None
    /\ ~args.resume
    /\ Get(chkpt).epoch = 2
    /\ net_params = 2
    /\ opt_state = 0
    /\ epoch = 0

\* ------------------------------------------------------------------
\* the command-line overrides

\* values of --epochs and --lr (lr in units of 1e-4)
ArgsOverrides == {None, Some(0), Some(1), Some(2)}

InitArgs ==
    /\ files = [p \in {} |-> 0]
    /\ args \in [checkpoint : {None}, resume : {FALSE}, epochs : ArgsOverrides,
                 lr : ArgsOverrides, workers : {0}]
    /\ config \in [epochs : 1..2, name : ConfigModelNames,
                   loss : ConfigLossNames, lr : ConfigLrs]
    /\ dataset \in [training : {1}, validation : {1}, batch_size : {1}]
    /\ pc = "main"
    /\ InitState

SpecArgs == InitArgs /\ [][Next]_vars

\* C16: whenever --epochs is given, the total epoch count used by the resume
\* guard, the epoch loop and the checkpoint names is the given value, for
\* every value that can be given; whenever --lr is given, the learning rate
\* handed to the optimizer is the given value.
C16_Overrides ==
    pc # "main" =>
        /\ (args.epochs # None => num_epochs = Get(args.epochs))
        /\ (args.lr # None => lr = Get(args.lr))

\* this run continues a run of the same total that stopped after the
\* checkpoint of epoch k: its files 1..k are in the output directory, the
\* one of epoch k is the checkpoint given with --resume, and any later file
\* present is one this run has opened itself
Continues(k) ==
    /\ ResumeRequested
    /\ chkpt # None
    /\ 0 < k /\ k < num_epochs
    /\ args.checkpoint = Some(CheckpointPath(k, num_epochs))
    /\ \A i \in 1..k : CheckpointPath(i, num_epochs) \in DOMAIN files
    /\ \A q \in DOMAIN files \ Elems(written) :
            \E i \in 1..k : q = CheckpointPath(i, num_epochs)

\* what the continued run does, compared with the epochs k+1..N of an
\* uninterrupted run
ContinuedRun(k) ==
    /\ resume = k
    /\ IsPrefix(history, Canon(k, num_epochs))
    /\ (pc = "done" =>
            /\ history = Canon(k, num_epochs)
            /\ Len(written) = num_epochs - k)
    /\ \A j \in DOMAIN written :
            /\ DigitsValue(written[j][1]) = k + j
            /\ DigitsValue(written[j][2]) = num_epochs
            /\ (files[written[j]].complete =>
                    files[written[j]].epoch = k + j)
    /\ \A i \in 1..k :
            /\ CheckpointPath(i, num_epochs) \notin Elems(written)
            /\ files[CheckpointPath(i, num_epochs)] =
                    PriorFiles(k, num_epochs)[CheckpointPath(i, num_epochs)]

\* C17: a run of total N started with --resume from the checkpoint of epoch
\* k (0 < k < N) of an earlier run of the same total, in the same output
\* directory, executes exactly the epochs k+1..N, writes for them the file
\* names and stored epoch numbers of an uninterrupted run, and rewrites none
\* of the files 1..k.
C17_ResumeContinuity ==
    \A k \in 1..MaxEpochs : Continues(k) => ContinuedRun(k)

C17_Witness ==
    /\ pc = "done"
    /\ Continues(1)
    /\ num_epochs = 3
    /\ Len(written) = 2
    /\ files[CheckpointPath(3, 3)].epoch = 3

\* ------------------------------------------------------------------
\* datasets that are not a whole number of batches

InitDrop ==
    /\ files = [p \in {} |-> 0]
    /\ args = [checkpoint |-> None, resume |-> FALSE, epochs |-> None,
               lr |-> None, workers |-> 0]
    /\ config \in [epochs : 1..2, name : ConfigModelNames,
                   loss : ConfigLossNames, lr : ConfigLrs]
    /\ dataset \in [training : 0..(MaxSamples + 1),
                    validation : 0..(MaxSamples + 1),
                    batch_size : BatchSizes]
    /\ pc = "main"
    /\ InitState

SpecDrop == InitDrop /\ [][Next]_vars

\* `seen` is n rounded down to a multiple of b
RoundedDown(seen, n, b) ==
    /\ seen % b = 0
    /\ seen <= n
    /\ n - seen <= b - 1

\* C18: with n samples and batch size b a train or validate pass processes
\* exactly floor(n/b)*b samples, leaving up to b-1 unseen; a non-empty
\* dataset with n < b gives no batch at all and the pass fails with the
\* empty-dataset error in the first epoch, before any checkpoint is opened.
C18_DropLast ==
    /\ (pc = "t_finish" =>
            RoundedDown(num_samples, dataset.training, dataset.batch_size))
    /\ (pc = "v_finish" =>
            RoundedDown(num_samples, dataset.validation, dataset.batch_size))
    /\ (0 < dataset.training /\ dataset.training < dataset.batch_size =>
            /\ written = <<>>
            /\ pc # "done"
            /\ IsPrefix(history, <<<<"train", resume>>>>)
            /\ (pc = "t_finish" => num_samples = 0)
            /\ (pc = "failed" => error.text = EmptyTrainMsg))
    /\ (dataset.training >= dataset.batch_size /\ 0 < dataset.validation
            /\ dataset.validation < dataset.batch_size =>
            /\ written = <<>>
            /\ pc # "done"
            /\ IsPrefix(history, <<<<"train", resume>>, <<"validate", resume>>>>)
            /\ (pc = "v_finish" => num_samples = 0)
            /\ (pc = "failed" =>
                    error.text \in ShapeMsgs \cup {EmptyValidateMsg}))

C18_Witness ==
    /\ pc = "t_finish"
    /\ dataset.training = 3
    /\ dataset.batch_size = 2
    /\ num_samples = 2

C18_WitnessEmpty ==
    /\ pc = "failed"
    /\ dataset.training = 1
    /\ dataset.batch_size = 2
    /\ error.text = EmptyTrainMsg
====
